---- MODULE Spec2Model ----
(***************************************************************************)
(* A model of the fintech reviews pipeline: the orchestrator of main.py,   *)
(* and of scripts/: the preprocessor, the sentiment and thematic           *)
(* analyzers, the database handler and the database verifier.              *)
(***************************************************************************)
EXTENDS Integers, Sequences, FiniteSets, TLC

\* ------------------------------------------------------------------ bounds
\* Longest dataset (number of review records) the environment hands over.
MaxRows == 2
\* Most storage-layer calls made on one store in StoreSpec.
MaxOps == 4
\* chunk_size of insert_data (1000 in the source), scaled so that a dataset
\* of MaxRows rows spans more than one batch.
ChunkSize == 1

\* Longest review text, in characters, given to clean_text.
MaxLen == 5

\* Most themes of a configuration given to assign_theme.
MaxThemes == 2

\* ------------------------------------------------------------ review rows
\* pandas' NaN / None in a string column.
NULL == "NULL"
\* The rating of a record whose rating is missing.  A raw rating is a number
\* counted in tenths (50 is 5.0, 45 is 4.5); past astype(int) it is whole.
NoRating == 0 - 1

IDs == {"r1", "r2"}
Banks == {"A", "B"}
GooglePlay == "Google Play Store"
OtherSource == "App Store"
\* The review_id of the i-th record of a frame whose identifiers are unique.
IdAt(i) == IF i = 1 THEN "r1" ELSE IF i = 2 THEN "r2" ELSE "r3"

\* The bank whose application a scraped review identifier belongs to.
BankOf(id) == IF id = "r1" THEN "A" ELSE "B"

Row(id, bank, source, txt, rating, date) ==
  [review_id |-> id, bank |-> bank, source |-> source, review_text |-> txt,
   rating |-> rating, date |-> date]

\* The records scrape_play_store_reviews builds: bank and source are set by
\* the scraper, the date is a formatted timestamp and the rating a score;
\* the review text is whatever the review source returned (possibly nothing).
ScrapedRows ==
  { Row(id, BankOf(id), GooglePlay, t, 50, "ok") : id \in IDs, t \in {"t", NULL} }

\* The records a caller may hand to insert_data: a well-formed record of
\* either bank under either identifier, or the record r2 with one anomaly
\* (missing bank, a second source for bank A, unparseable date).
StoreRows ==
  { Row(id, b, GooglePlay, "t", 5, "ok") : id \in IDs, b \in Banks }
  \cup { Row("r2", NULL, GooglePlay, "t", 5, "ok"),
         Row("r2", "A", OtherSource, "t", 5, "ok"),
         Row("r2", "A", GooglePlay, "t", 5, "bad") }

SeqsUpTo(S, n) == UNION { [1..k -> S] : k \in 0..n }

\* ------------------------------------------------------------- DataFrames
ScrapedColumns == {"review_text", "rating", "date", "bank", "source", "review_id"}

DF(cols, rows) == [none |-> FALSE, cols |-> cols, rows |-> rows]
NoneDF == [none |-> TRUE, cols |-> {}, rows |-> <<>>]

\* No call observed yet.
NoCall == [fn |-> "none"]

\* df.empty
Empty(df) == Len(df.rows) = 0

\* F applied to the value of e: e is evaluated once, however often F uses it.
Strict(e, F(_)) == CHOOSE r \in { F(x) : x \in {e} } : TRUE

FilterSeq(s, Pred(_)) ==
  Strict(s, LAMBDA v :
    LET F[i \in 0..Len(v)] ==
          IF i = 0 THEN <<>>
          ELSE IF Pred(v[i]) THEN Append(F[i - 1], v[i]) ELSE F[i - 1]
    IN F[Len(v)])

\* main.validate_dataframe
validate_dataframe(df) ==
  IF df.none THEN FALSE
  ELSE IF Empty(df) THEN TRUE
  ELSE {"review_text", "rating", "bank"} \subseteq df.cols

\* df.to_csv followed by pd.read_csv: the columns and the rows come back;
\* a file written from a frame with no columns cannot be parsed.
to_csv(df) == [cols |-> df.cols, rows |-> df.rows]
read_csv_raises(content) == content.cols = {}
read_csv(content) == DF(content.cols, content.rows)

\* ------------------------------------------------------------ preprocessor
\* drop_duplicates with keep='last'.
drop_duplicates_KeepLast(rows) ==
  LET F[i \in 0..Len(rows)] ==
        IF i = 0 THEN <<>>
        ELSE IF \E j \in (i + 1)..Len(rows) : rows[j].review_id = rows[i].review_id
             THEN F[i - 1]
             ELSE Append(F[i - 1], rows[i])
  IN F[Len(rows)]

\* df.drop_duplicates(subset=['review_id'], keep='first')
drop_duplicates(rows) ==
  LET F[i \in 0..Len(rows)] ==
        IF i = 0 THEN <<>>
        ELSE IF \E j \in 1..(i - 1) : rows[j].review_id = rows[i].review_id
             THEN F[i - 1]
             ELSE Append(F[i - 1], rows[i])
  IN F[Len(rows)]

\* df.dropna(subset=['review_text', 'rating'])
HasTextAndRating(r) == r.review_text # NULL /\ r.rating # NoRating
dropna_text_rating(rows) == FilterSeq(rows, HasTextAndRating)

\* preprocess_reviews raises: a column it indexes is missing, or
\* pd.to_datetime meets a date it cannot parse.
preprocess_raises(df) ==
  \/ ~({"review_id", "review_text", "rating", "date"} \subseteq df.cols)
  \/ Strict(dropna_text_rating(drop_duplicates(df.rows)),
            LAMBDA kept : \E i \in 1..Len(kept) : kept[i].date = "bad")

\* A text is a sequence of characters; these stand for the classes the two
\* patterns of clean_text tell apart: lower- and upper-case letter, digit,
\* underscore, space, another whitespace character, kept punctuation, and a
\* character neither pattern keeps.
Tab == "\t"
Alphabet == {"a", "A", "1", "_", " ", Tab, ".", "#"}
Texts == SeqsUpTo(Alphabet, MaxLen)
\* A cell of the review_text column: a str, or a missing value.
Str(chars) == [isna |-> FALSE, chars |-> chars]
NaN == [isna |-> TRUE, chars |-> <<>>]

\* \s
IsSpace(c) == c \in {" ", Tab}
\* The letters str.lower maps, position by position.
Lowers ==
  <<"a", "b", "c", "d", "e", "f", "g", "h", "i", "j", "k", "l", "m",
    "n", "o", "p", "q", "r", "s", "t", "u", "v", "w", "x", "y", "z">>
Uppers ==
  <<"A", "B", "C", "D", "E", "F", "G", "H", "I", "J", "K", "L", "M",
    "N", "O", "P", "Q", "R", "S", "T", "U", "V", "W", "X", "Y", "Z">>
Digits == {"0", "1", "2", "3", "4", "5", "6", "7", "8", "9"}
Range(f) == { f[i] : i \in DOMAIN f }
\* \w
IsWord(c) == c \in Range(Lowers) \cup Range(Uppers) \cup Digits \cup {"_"}
\* [\w\s.,!?]
IsKept(c) == IsWord(c) \/ IsSpace(c) \/ c \in {".", ",", "!", "?"}

\* re.sub(r'\s+', ' ', text)
collapse_whitespace(text) ==
  LET F[i \in 0..Len(text)] ==
        IF i = 0 THEN <<>>
        ELSE IF ~IsSpace(text[i]) THEN Append(F[i - 1], text[i])
        ELSE IF i > 1 /\ IsSpace(text[i - 1]) THEN F[i - 1]
        ELSE Append(F[i - 1], " ")
  IN F[Len(text)]

\* re.sub(r'[^\w\s.,!?]', '', text)
remove_special(text) == FilterSeq(text, IsKept)

\* str.lower
lower_char(c) ==
  IF c \in Range(Uppers) THEN Lowers[CHOOSE i \in DOMAIN Uppers : Uppers[i] = c]
  ELSE c
lower(text) == [i \in 1..Len(text) |-> lower_char(text[i])]

\* str.strip
strip(text) ==
  LET kept == { i \in 1..Len(text) : ~IsSpace(text[i]) }
  IN IF kept = {} THEN <<>>
     ELSE SubSeq(text, CHOOSE i \in kept : \A j \in kept : i <= j,
                       CHOOSE i \in kept : \A j \in kept : j <= i)

\* preprocessor.clean_text
clean_text(text) ==
  IF text.isna THEN Str(<<>>)
  ELSE Str(strip(lower(remove_special(collapse_whitespace(text.chars)))))

\* df['rating'].astype(int) on a float column: the fraction is cut off,
\* towards zero.
astype_int(rating) ==
  IF rating >= 0 THEN rating \div 10 ELSE 0 - ((0 - rating) \div 10)

\* preprocessor.preprocess_reviews: a new frame, the input is left alone.
preprocess_reviews(df) ==
  Strict(dropna_text_rating(drop_duplicates(df.rows)), LAMBDA kept :
    DF(df.cols \cup {"cleaned_text"},
       [i \in 1..Len(kept) |->
          [kept[i] EXCEPT !.rating = astype_int(kept[i].rating)]]))

\* ------------------------------------------------------ sentiment analyzer
\* Scores are counted in hundredths: 50 is 0.5, 100 is 1.0.
\* What self.sentiment_pipeline(text[:512]) may do for one text: raise (a
\* model error, a timeout), or return a list.  The list of a working
\* pipeline holds one dict with the label and the score of the text; a
\* malformed one is empty, or its dict lacks a key, or carries a label or a
\* score no working pipeline gives.
Raises == [raises |-> TRUE, out |-> <<>>]
Returns(out) == [raises |-> FALSE, out |-> out]
WorkingOutcomes ==
  { Returns(<<[label |-> l, score |-> sc]>>) :
      l \in {"POSITIVE", "NEGATIVE"}, sc \in {50, 100} }
MalformedOutcomes ==
  { Returns(<<>>),
    Returns(<<[label |-> "POSITIVE"]>>),
    Returns(<<[label |-> "LABEL_1", score |-> 100]>>),
    Returns(<<[label |-> "POSITIVE", score |-> 150]>>) }
Outcomes == WorkingOutcomes \cup MalformedOutcomes \cup {Raises}

\* return 'NEUTRAL', 0.5
Fallback == [label |-> "NEUTRAL", score |-> 50]

\* SentimentAnalyzer.analyze_sentiment_distilbert: whatever is raised inside
\* the try (by the pipeline, by [0] on an empty list, by a missing key) is
\* caught; anything else is returned as it came.
analyze_sentiment_distilbert(outcome) ==
  IF outcome.raises THEN Fallback
  ELSE IF Len(outcome.out) = 0 THEN Fallback
  ELSE IF ~({"label", "score"} \subseteq DOMAIN outcome.out[1]) THEN Fallback
  ELSE [label |-> outcome.out[1].label, score |-> outcome.out[1].score]

\* The loop of analyze_reviews over df['cleaned_text']: the lists sentiments
\* and scores, one entry per text.
classify_all(outcomes) ==
  [sentiments |-> [i \in 1..Len(outcomes) |->
                     analyze_sentiment_distilbert(outcomes[i]).label],
   scores |-> [i \in 1..Len(outcomes) |->
                 analyze_sentiment_distilbert(outcomes[i]).score]]

\* ------------------------------------------------------- thematic analyzer
\* self.themes of ThematicAnalyzer.__init__: a dict, whose iteration order is
\* the order of declaration; each keyword is a sequence of characters.
themes ==
  <<
     [name |-> "UI/UX",
      keywords |-> <<
        <<"i", "n", "t", "e", "r", "f", "a", "c", "e">>,
        <<"d", "e", "s", "i", "g", "n">>,
        <<"l", "a", "y", "o", "u", "t">>,
        <<"s", "c", "r", "e", "e", "n">>,
        <<"b", "u", "t", "t", "o", "n">>,
        <<"m", "e", "n", "u">>,
        <<"n", "a", "v", "i", "g", "a", "t", "i", "o", "n">> >>],
     [name |-> "Performance",
      keywords |-> <<
        <<"s", "l", "o", "w">>,
        <<"f", "a", "s", "t">>,
        <<"s", "p", "e", "e", "d">>,
        <<"l", "o", "a", "d", "i", "n", "g">>,
        <<"l", "a", "g">>,
        <<"c", "r", "a", "s", "h">>,
        <<"f", "r", "e", "e", "z", "e">> >>],
     [name |-> "Functionality",
      keywords |-> <<
        <<"t", "r", "a", "n", "s", "f", "e", "r">>,
        <<"p", "a", "y", "m", "e", "n", "t">>,
        <<"l", "o", "g", "i", "n">>,
        <<"p", "a", "s", "s", "w", "o", "r", "d">>,
        <<"a", "c", "c", "o", "u", "n", "t">>,
        <<"b", "a", "l", "a", "n", "c", "e">> >>],
     [name |-> "Security",
      keywords |-> <<
        <<"s", "e", "c", "u", "r", "e">>,
        <<"s", "a", "f", "e">>,
        <<"p", "a", "s", "s", "w", "o", "r", "d">>,
        <<"p", "i", "n">>,
        <<"a", "u", "t", "h", "e", "n", "t", "i", "c", "a", "t", "i", "o", "n">>,
        <<"f", "i", "n", "g", "e", "r", "p", "r", "i", "n", "t">> >>],
     [name |-> "Support",
      keywords |-> <<
        <<"s", "u", "p", "p", "o", "r", "t">>,
        <<"h", "e", "l", "p">>,
        <<"s", "e", "r", "v", "i", "c", "e">>,
        <<"r", "e", "s", "p", "o", "n", "s", "e">>,
        <<"c", "o", "n", "t", "a", "c", "t">>,
        <<"c", "o", "m", "p", "l", "a", "i", "n", "t">> >>] >>

\* keyword in text_lower
IsSubstring(keyword, text) ==
  \E i \in 0..(Len(text) - Len(keyword)) :
     SubSeq(text, i + 1, i + Len(keyword)) = keyword

\* sum(1 for keyword in keywords if keyword in text_lower)
score(keywords, text_lower) ==
  Cardinality({ k \in 1..Len(keywords) : IsSubstring(keywords[k], text_lower) })

\* theme_scores: the score of each theme, in the order of the configuration.
theme_scores(config, text) ==
  [i \in 1..Len(config) |-> score(config[i].keywords, lower(text))]

\* max(theme_scores.values())
max_score(config, text) ==
  Strict(theme_scores(config, text), LAMBDA sc :
    CHOOSE m \in Range(sc) : \A n \in Range(sc) : n <= m)

\* assign_theme with max taking the last of the themes of maximal score.
assign_theme_LastMax(config, text) ==
  Strict(theme_scores(config, text), LAMBDA sc :
    LET m == CHOOSE v \in Range(sc) : \A n \in Range(sc) : n <= v
    IN IF m > 0
       THEN config[CHOOSE i \in DOMAIN sc :
                     sc[i] = m /\ \A j \in DOMAIN sc : sc[j] = m => j <= i].name
       ELSE "Other")

\* assign_theme without the branch for a text that matches nothing.
assign_theme_NoOther(config, text) ==
  Strict(theme_scores(config, text), LAMBDA sc :
    LET m == CHOOSE v \in Range(sc) : \A n \in Range(sc) : n <= v
    IN config[CHOOSE i \in DOMAIN sc :
                sc[i] = m /\ \A j \in DOMAIN sc : sc[j] = m => i <= j].name)

\* ThematicAnalyzer.assign_theme on a non-empty configuration: max over a
\* dict returns the first key, in iteration order, of maximal score.
assign_theme(config, text) ==
  Strict(theme_scores(config, text), LAMBDA sc :
    LET m == CHOOSE v \in Range(sc) : \A n \in Range(sc) : n <= v
    IN IF m > 0
       THEN config[CHOOSE i \in DOMAIN sc :
                     sc[i] = m /\ \A j \in DOMAIN sc : sc[j] = m => i <= j].name
       ELSE "Other")

\* ------------------------------------------------------------ storage layer
\* The store: each table is absent, created by create_tables with the
\* declared constraints ("orm"), or created by DataFrame.to_sql on first
\* append, which declares no constraint ("auto").
EmptyStore ==
  [banksT |-> "absent", reviewsT |-> "absent", banks |-> <<>>, reviews |-> <<>>,
   idx |-> FALSE]

ColumnOf(rows, f) == [i \in 1..Len(rows) |-> rows[i][f]]
HasDuplicates(s) == \E i, j \in 1..Len(s) : i < j /\ s[i] = s[j]
Values(s) == { s[i] : i \in 1..Len(s) }

CreateFaults == {"none", "drop_reviews", "drop_banks", "create_all", "indexes"}

\* create_tables with the two drops exchanged: banks first, then reviews.
create_tables_BanksFirst(db, defined, fault) ==
  IF defined THEN [db |-> db, raised |-> TRUE]
  ELSE IF fault = "drop_reviews" THEN [db |-> db, raised |-> TRUE]
  ELSE LET d1 == [db EXCEPT !.banksT = "absent", !.banks = <<>>]
       IN IF fault = "drop_banks" THEN [db |-> d1, raised |-> TRUE]
          ELSE LET d2 == [d1 EXCEPT !.reviewsT = "absent", !.reviews = <<>>,
                                    !.idx = FALSE]
               IN IF fault = "create_all" THEN [db |-> d2, raised |-> TRUE]
                  ELSE LET d3 == [d2 EXCEPT !.banksT = "orm", !.reviewsT = "orm"]
                       IN IF fault = "indexes" THEN [db |-> d3, raised |-> TRUE]
                          ELSE [db |-> [d3 EXCEPT !.idx = TRUE], raised |-> FALSE]

\* DatabaseHandler.create_tables.  defined: this handler's declarative Base
\* already holds the two mapped classes (an earlier call on the same
\* handler), so declaring them again is refused before anything is dropped.
\* fault: the statement at which the store fails, if any.
create_tables(db, defined, fault) ==
  IF defined THEN [db |-> db, raised |-> TRUE]
  ELSE IF fault = "drop_reviews" THEN [db |-> db, raised |-> TRUE]
  ELSE LET d1 == [db EXCEPT !.reviewsT = "absent", !.reviews = <<>>, !.idx = FALSE]
       IN IF fault = "drop_banks" THEN [db |-> d1, raised |-> TRUE]
          ELSE LET d2 == [d1 EXCEPT !.banksT = "absent", !.banks = <<>>]
               IN IF fault = "create_all" THEN [db |-> d2, raised |-> TRUE]
                  ELSE LET d3 == [d2 EXCEPT !.banksT = "orm", !.reviewsT = "orm"]
                       IN IF fault = "indexes" THEN [db |-> d3, raised |-> TRUE]
                          ELSE [db |-> [d3 EXCEPT !.idx = TRUE], raised |-> FALSE]

\* df[['bank', 'source']].drop_duplicates(): the distinct pairs, first seen first.
bank_pairs(rows) ==
  LET F[i \in 0..Len(rows)] ==
        IF i = 0 THEN <<>>
        ELSE IF \E j \in 1..(i - 1) :
                  rows[j].bank = rows[i].bank /\ rows[j].source = rows[i].source
             THEN F[i - 1]
             ELSE Append(F[i - 1], [bank |-> rows[i].bank, source |-> rows[i].source])
  IN F[Len(rows)]

\* The bank dimension of insert_data: surrogate ids from 1 in first-seen order.
bank_df(rows) ==
  Strict(bank_pairs(rows), LAMBDA p :
    [i \in 1..Len(p) |-> [bank_id |-> i, bank_name |-> p[i].bank, source |-> p[i].source]])

\* bank_df.set_index('bank_name')['bank_id'].to_dict(), applied by Series.map:
\* of several rows with one name the last one wins; no row gives NaN (0).
bank_id_map(bdf, name) ==
  LET hits == { i \in 1..Len(bdf) : bdf[i].bank_name = name }
  IN IF hits = {} THEN 0
     ELSE bdf[CHOOSE i \in hits : \A j \in hits : j <= i].bank_id

\* banks(bank_id PRIMARY KEY, bank_name UNIQUE NOT NULL, source)
banks_violation(existing, new) ==
  \/ \E i \in 1..Len(new) : new[i].bank_name = NULL
  \/ HasDuplicates(ColumnOf(existing \o new, "bank_id"))
  \/ HasDuplicates(ColumnOf(existing \o new, "bank_name"))

\* reviews(review_id PRIMARY KEY, bank_id NOT NULL REFERENCES banks, ...,
\* rating NOT NULL)
reviews_violation(db, chunk) ==
  \/ HasDuplicates(ColumnOf(db.reviews, "review_id") \o ColumnOf(chunk, "review_id"))
  \/ \E i \in 1..Len(chunk) :
        chunk[i].bank_id \notin Values(ColumnOf(db.banks, "bank_id"))
  \/ \E i \in 1..Len(chunk) : chunk[i].rating = NoRating

\* One DataFrame.to_sql(..., if_exists='append') on banks: one transaction.
append_banks(db, new) ==
  IF db.banksT = "orm" /\ banks_violation(db.banks, new)
  THEN [db |-> db, raised |-> TRUE]
  ELSE [db |-> [db EXCEPT !.banksT = IF @ = "absent" THEN "auto" ELSE @,
                          !.banks = @ \o new],
        raised |-> FALSE]

\* One chunk.to_sql('reviews', ..., if_exists='append'): one transaction.
append_reviews(db, chunk) ==
  IF db.reviewsT = "orm" /\ reviews_violation(db, chunk)
  THEN [db |-> db, raised |-> TRUE]
  ELSE [db |-> [db EXCEPT !.reviewsT = IF @ = "absent" THEN "auto" ELSE @,
                          !.reviews = @ \o chunk],
        raised |-> FALSE]

\* The rows prepared for the reviews table: bank_id attached through the map,
\* rows without bank_id, review_id or review_text dropped, then rows whose
\* date does not parse dropped.
HasKeys(r) == r.bank_id # 0 /\ r.review_id # NULL /\ r.review_text # NULL
HasDate(r) == r.date # "bad"
\* The sentiment_label of a record; the records of a frame whose labels are
\* not told apart carry the default insert_data gives the column.
Label(r) == IF "sentiment_label" \in DOMAIN r THEN r.sentiment_label ELSE "NEUTRAL"
\* The theme of a record, likewise.
Theme(r) == IF "theme" \in DOMAIN r THEN r.theme ELSE "General"
with_bank_id(rows) ==
  Strict(bank_df(rows), LAMBDA bdf :
    [i \in 1..Len(rows) |->
       [review_id |-> rows[i].review_id,
        bank_id |-> bank_id_map(bdf, rows[i].bank),
        review_text |-> rows[i].review_text,
        rating |-> rows[i].rating,
        sentiment_label |-> Label(rows[i]),
        theme |-> Theme(rows[i]),
        date |-> rows[i].date]])
\* len(unmapped), the count insert_data logs as a warning.
unmapped(rows) == Len(FilterSeq(with_bank_id(rows), LAMBDA r : r.bank_id = 0))
reviews_df(rows) == FilterSeq(FilterSeq(with_bank_id(rows), HasKeys), HasDate)

Chunk(rows, k) ==
  SubSeq(rows, (k - 1) * ChunkSize + 1,
         IF k * ChunkSize < Len(rows) THEN k * ChunkSize ELSE Len(rows))
NumChunks(rows) == (Len(rows) + ChunkSize - 1) \div ChunkSize

\* The batch loop of insert_data from batch k on; fault = k + 1 makes the
\* store fail at batch k.  batch: the batch whose insert raised, 0 if none.
RECURSIVE insert_chunks(_, _, _, _, _)
insert_chunks(db, rows, k, fault, total) ==
  IF k > NumChunks(rows)
  THEN [db |-> db, raised |-> FALSE, inserted |-> total, batch |-> 0]
  ELSE IF fault = k + 1
  THEN [db |-> db, raised |-> TRUE, inserted |-> total, batch |-> k]
  ELSE Strict(append_reviews(db, Chunk(rows, k)), LAMBDA r :
         IF r.raised
         THEN [db |-> r.db, raised |-> TRUE, inserted |-> total, batch |-> k]
         ELSE insert_chunks(r.db, rows, k + 1, fault, total + Len(Chunk(rows, k))))

\* Faults of a load: 0 none, 1 the bank insert, k + 1 batch k.
InsertFaults == 0..(1 + MaxRows)

\* insert_data as one transaction: a failed batch takes the earlier batches
\* of the load with it.
insert_data_Atomic(db, df, fault) ==
  IF Empty(df) THEN [db |-> db, raised |-> FALSE, inserted |-> 0, batch |-> 0]
  ELSE IF fault = 1 THEN [db |-> db, raised |-> TRUE, inserted |-> 0, batch |-> 0]
  ELSE Strict(append_banks(db, bank_df(df.rows)), LAMBDA b :
         IF b.raised THEN [db |-> db, raised |-> TRUE, inserted |-> 0, batch |-> 0]
         ELSE Strict(insert_chunks(b.db, reviews_df(df.rows), 1, fault, 0), LAMBDA r :
                IF r.raised THEN [r EXCEPT !.db = b.db] ELSE r))

\* DatabaseHandler.insert_data.
insert_data(db, df, fault) ==
  IF Empty(df) THEN [db |-> db, raised |-> FALSE, inserted |-> 0, batch |-> 0]
  ELSE IF ~({"bank", "review_text", "rating", "review_id"} \subseteq df.cols)
  THEN [db |-> db, raised |-> TRUE, inserted |-> 0, batch |-> 0]
  ELSE IF fault = 1 THEN [db |-> db, raised |-> TRUE, inserted |-> 0, batch |-> 0]
  ELSE Strict(append_banks(db, bank_df(df.rows)), LAMBDA b :
         IF b.raised THEN [db |-> db, raised |-> TRUE, inserted |-> 0, batch |-> 0]
         ELSE Strict(reviews_df(df.rows), LAMBDA rs :
                insert_chunks(b.db, rs, 1, fault, 0)))

\* The warnings insert_data has logged when it returns or raises with
\* outcome r: the empty frame, and the count of reviews whose bank is
\* unmapped, which is logged once the bank insert is through.
insert_warnings(df, r) ==
  IF Empty(df) THEN {[what |-> "empty DataFrame", n |-> 0]}
  ELSE IF (~r.raised \/ r.batch > 0) /\ unmapped(df.rows) > 0
  THEN {[what |-> "unmapped banks", n |-> unmapped(df.rows)]}
  ELSE {}

\* What a caller observes of one insert_data call.
Observed(df, r) ==
  [fn |-> "insert_data", batch |-> r.batch, warnings |-> insert_warnings(df, r)]

\* DatabaseHandler.run_queries raises when the store fails or when the
\* summary of an empty reviews table (AVG is NULL) is formatted.
run_queries_raises(db, fault) ==
  fault \/ db.reviewsT = "absent" \/ db.banksT = "absent" \/ Len(db.reviews) = 0

\* ---------------------------------------------------------------- verifier
\* dict.get(key, default)
Get(d, key, default) == IF key \in DOMAIN d THEN d[key] ELSE default

\* value_counts / GROUP BY ... COUNT(*): the keys that occur, each with the
\* number of its occurrences.
CountBy(keys) ==
  [k \in Values(keys) |-> Cardinality({ i \in 1..Len(keys) : keys[i] = k })]

\* One per bank row, whatever the reviews.
JoinedBankNames_CountBanks(db) ==
  [name \in Values(ColumnOf(db.banks, "bank_name")) |-> 1]

\* reviews r JOIN banks b ON r.bank_id = b.bank_id: the bank_name of every
\* joined pair.
JoinedBankNames(db) ==
  LET pairs == { p \in (1..Len(db.reviews)) \X (1..Len(db.banks)) :
                   db.reviews[p[1]].bank_id = db.banks[p[2]].bank_id }
  IN [name \in { db.banks[p[2]].bank_name : p \in pairs } |->
        Cardinality({ p \in pairs : db.banks[p[2]].bank_name = name })]

\* DatabaseVerifier.get_database_counts.  A query that raises (fault, or a
\* table that does not exist) leaves the counts gathered so far and sets
\* 'error'.  The theme and rating distributions, which nothing compares,
\* are left out.
get_database_counts(db, fault) ==
  IF fault \/ db.reviewsT = "absent" THEN [error |-> TRUE]
  ELSE IF db.banksT = "absent"
  THEN [total_reviews |-> Len(db.reviews), error |-> TRUE]
  ELSE [total_reviews |-> Len(db.reviews),
        total_banks |-> Len(db.banks),
        bank_counts |-> JoinedBankNames(db),
        unique_banks |-> Cardinality(DOMAIN JoinedBankNames(db)),
        sentiment_counts |-> CountBy(ColumnOf(db.reviews, "sentiment_label"))]

\* DatabaseVerifier.get_source_counts; value_counts leaves missing values out.
get_source_counts(df) ==
  IF df.none \/ Empty(df) THEN [error |-> TRUE]
  ELSE LET banks == IF "bank" \in df.cols
                    THEN CountBy(ColumnOf(FilterSeq(df.rows, LAMBDA r : r.bank # NULL),
                                          "bank"))
                    ELSE <<>>
       IN [total_reviews |-> Len(df.rows),
           bank_counts |-> banks,
           unique_banks |-> Cardinality(DOMAIN banks),
           sentiment_counts |->
             IF "sentiment_label" \in df.cols
             THEN CountBy([i \in 1..Len(df.rows) |-> Label(df.rows[i])])
             ELSE <<>>]

\* DatabaseVerifier.compare_counts.  mismatches holds one entry per message
\* appended to the list, with the values the message shows; the entries of
\* the banks come in the iteration order of a set, so the list is kept as a
\* set.
compare_counts(db_counts, source_counts) ==
  LET db_total == Get(db_counts, "total_reviews", 0)
      source_total == Get(source_counts, "total_reviews", 0)
      db_unique_banks == Get(db_counts, "unique_banks", 0)
      source_unique_banks == Get(source_counts, "unique_banks", 0)
      db_banks == Get(db_counts, "bank_counts", <<>>)
      source_banks == Get(source_counts, "bank_counts", <<>>)
      all_banks == DOMAIN db_banks \cup DOMAIN source_banks
      bank_mismatches ==
        { [dimension |-> "bank_counts", bank |-> b,
           database |-> Get(db_banks, b, 0), source |-> Get(source_banks, b, 0),
           difference |-> Get(db_banks, b, 0) - Get(source_banks, b, 0)] :
          b \in { x \in all_banks : Get(db_banks, x, 0) # Get(source_banks, x, 0) } }
      integrity_check == db_total = source_total /\ db_unique_banks = source_unique_banks
      mismatches ==
        (IF db_total # source_total
         THEN {[dimension |-> "total_reviews", database |-> db_total,
                source |-> source_total, difference |-> db_total - source_total]}
         ELSE {})
        \cup (IF db_unique_banks # source_unique_banks
              THEN {[dimension |-> "unique_banks", database |-> db_unique_banks,
                     source |-> source_unique_banks]}
              ELSE {})
        \cup bank_mismatches
  IN [integrity_check |-> integrity_check,
      mismatches |-> mismatches,
      summary |-> [database_total |-> db_total,
                   source_total |-> source_total,
                   database_banks |-> db_unique_banks,
                   source_banks |-> source_unique_banks,
                   total_mismatches |-> Cardinality(mismatches),
                   bank_mismatches |-> Cardinality(bank_mismatches),
                   data_integrity |-> IF integrity_check THEN "PASS" ELSE "FAIL"]]

VerifyFaults == {"none", "connect", "query"}

\* DatabaseVerifier.verify_database_contents: connect raising is caught by
\* the function itself, a failing query by get_database_counts.
verify_database_contents(db, source_df, fault) ==
  IF fault = "connect"
  THEN [integrity_check |-> FALSE,
        verification_summary |-> [database_connection |-> "FAILED",
                                  data_integrity |-> "ERROR"]]
  ELSE LET db_counts == get_database_counts(db, fault = "query")
           source_counts == get_source_counts(source_df)
           comparison == compare_counts(db_counts, source_counts)
       IN [integrity_check |-> comparison.integrity_check,
           record_counts |-> [database |-> db_counts, source |-> source_counts],
           comparison |-> comparison,
           verification_summary |->
             [database_connection |-> "SUCCESS",
              database_rows |-> Get(db_counts, "total_reviews", 0),
              database_banks |-> Get(db_counts, "unique_banks", 0),
              total_mismatches |-> Cardinality(comparison.mismatches),
              data_integrity |-> comparison.summary.data_integrity]]

\* ------------------------------------------------------------ orchestrator
VARIABLES
  pc,             \* the orchestrator's position in main()
  pipeline_data,  \* main's dict of stage results, by key
  success_steps,  \* main's list of succeeded steps
  failed_steps,   \* main's list of failed steps
  started,        \* the steps whose start was displayed: the stages executed
  files,          \* data/: file name -> content, for the files that exist
  backups,        \* backups/: the timestamped copies written so far
  clock,          \* the time stamp the next save reads from datetime.now()
  report,         \* the FINAL STATUS of the execution report, once printed
  db,             \* the PostgreSQL store
  defined,        \* the handler's Base already maps Bank and Review
  ds,             \* the dataset the caller of the storage layer loads
  log,            \* the storage-layer calls made so far, with their outcome
  faulted,        \* the store itself was made to fail during one of those calls
  call            \* the last call observed on its own: its name and what it gave

vars == <<pc, pipeline_data, success_steps, failed_steps, started, files,
          backups, clock, report, db, defined, ds, log, faulted, call>>
storeVars == <<defined, ds, log, faulted, call>>
mainVars == <<pc, pipeline_data, success_steps, failed_steps, started, files,
              backups, clock, report>>

Collect == "Data Collection"
Clean == "Data Preprocessing"
ClassifySentiment == "Sentiment Analysis"
AssignTheme == "Thematic Analysis"
Persist == "Database Storage"
Visualize == "Visualization"
Stages == <<Collect, Clean, ClassifySentiment, AssignTheme, Persist, Visualize>>

RawFile == "raw_reviews.csv"
CleanedFile == "cleaned_reviews.csv"
AnalyzedFile == "analyzed_reviews.csv"
FinalFile == "final_analyzed_reviews.csv"

SaveFaults == {"none", "backup", "write"}

\* main.save_dataframe on the directory state (f, b) at time now: the backup
\* of an existing file, then the file itself; fault names the write that
\* fails.  Returns the new directory state and the boolean it returns.
save_dataframe(f, b, now, df, filename, fault) ==
  LET exists == filename \in DOMAIN f
      b1 == IF exists
            THEN b \cup {[name |-> filename, stamp |-> now, content |-> to_csv(df)]}
            ELSE b
  IN IF exists /\ fault = "backup" THEN [files |-> f, backups |-> b, ok |-> FALSE]
     ELSE IF fault = "write" THEN [files |-> f, backups |-> b1, ok |-> FALSE]
     ELSE [files |-> [n \in DOMAIN f \cup {filename} |->
                        IF n = filename THEN to_csv(df) ELSE f[n]],
           backups |-> b1, ok |-> TRUE]

\* pipeline_data[key] = df
SetKey(pd, key, df) ==
  [k \in DOMAIN pd \cup {key} |-> IF k = key THEN df ELSE pd[k]]

\* The frames under "cleaned", "analyzed" and "final" are one object: the
\* analyzers add their columns to the frame they are given and return it.
InPlace(pd, df) ==
  [k \in DOMAIN pd |-> IF k \in {"cleaned", "analyzed", "final"} THEN df ELSE pd[k]]

\* A step's result is stored under its key only once save_dataframe returned
\* True.
Keep_Always(pd, key, df, saved) == SetKey(pd, key, df)
Keep(pd, key, df, saved) == IF saved THEN SetKey(pd, key, df) ELSE pd

Failed(step, why) == [step |-> step, why |-> why]
Succeeded(step, how) == [step |-> step, how |-> how]

\* The tail shared by steps 1 to 4: validate_dataframe, save_dataframe, then
\* the result is stored under key and the step recorded.
Deliver(pd, df, step, key, filename, fault, next) ==
  IF validate_dataframe(df)
  THEN LET s == save_dataframe(files, backups, clock, df, filename, fault)
       IN /\ files' = s.files
          /\ backups' = s.backups
          /\ clock' = clock + 1
          /\ pipeline_data' = Keep(pd, key, df, s.ok)
          /\ IF s.ok
             THEN /\ success_steps' = Append(success_steps, Succeeded(step, "run"))
                  /\ UNCHANGED failed_steps
             ELSE /\ failed_steps' = Append(failed_steps, Failed(step, "Save failed"))
                  /\ UNCHANGED success_steps
          /\ pc' = next
  ELSE /\ pipeline_data' = pd
       /\ failed_steps' = Append(failed_steps, Failed(step, "Validation failed"))
       /\ pc' = next
       /\ UNCHANGED <<success_steps, files, backups, clock>>

Raise_Escapes(pd, step, next) ==
  /\ pipeline_data' = pd
  /\ pc' = "critical"
  /\ UNCHANGED <<success_steps, failed_steps, files, backups, clock>>
\* The except branch of steps 2 to 4.
Raise(pd, step, next) ==
  /\ pipeline_data' = pd
  /\ failed_steps' = Append(failed_steps, Failed(step, "exception"))
  /\ pc' = next
  /\ UNCHANGED <<success_steps, files, backups, clock>>

\* The else branch of steps 2 to 6: the step is skipped.
Skip(next) ==
  /\ pc' = next
  /\ UNCHANGED <<pipeline_data, success_steps, failed_steps, started, files,
                 backups, clock>>

Available(key) == key \in DOMAIN pipeline_data /\ ~Empty(pipeline_data[key])

\* Step 0: ensure_directories, whose OSError reaches main's outer handler.
Initialize ==
  /\ pc = "init"
  /\ \E ok \in BOOLEAN :
       IF ok
       THEN /\ success_steps' = Append(success_steps, Succeeded("Initialization", "run"))
            /\ pc' = "collect"
       ELSE /\ pc' = "critical"
            /\ UNCHANGED success_steps
  /\ UNCHANGED <<pipeline_data, failed_steps, started, files, backups, clock,
                 report, db, storeVars>>

ScrapeResults == { DF(ScrapedColumns, rows) : rows \in SeqsUpTo(ScrapedRows, MaxRows) }

\* Step 1: scrape_play_store_reviews, with the fallback to the raw snapshot
\* when it raises.
DataCollection ==
  /\ pc = "collect"
  /\ started' = Append(started, Collect)
  /\ \/ \E df \in ScrapeResults, fault \in SaveFaults :
          Deliver(pipeline_data, df, Collect, "raw", RawFile, fault, "clean")
     \/ /\ failed_steps' = Append(failed_steps, Failed(Collect, "exception"))
        /\ IF RawFile \in DOMAIN files /\ ~read_csv_raises(files[RawFile])
           THEN /\ pipeline_data' = SetKey(pipeline_data, "raw", read_csv(files[RawFile]))
                /\ success_steps' = Append(success_steps, Succeeded(Collect, "from file"))
           ELSE UNCHANGED <<pipeline_data, success_steps>>
        /\ pc' = "clean"
        /\ UNCHANGED <<files, backups, clock>>
  /\ UNCHANGED <<report, db, storeVars>>

\* Step 2: preprocess_reviews.
DataPreprocessing ==
  /\ pc = "clean"
  /\ IF Available("raw")
     THEN /\ started' = Append(started, Clean)
          /\ IF preprocess_raises(pipeline_data["raw"])
             THEN Raise(pipeline_data, Clean, "sentiment")
             ELSE \E fault \in SaveFaults :
                    Deliver(pipeline_data, preprocess_reviews(pipeline_data["raw"]),
                            Clean, "cleaned", CleanedFile, fault, "sentiment")
     ELSE Skip("sentiment")
  /\ UNCHANGED <<report, db, storeVars>>

\* SentimentAnalyzer.analyze_reviews: two columns added to the frame given.
analyze_reviews(df) == DF(df.cols \cup {"sentiment_label", "sentiment_score"}, df.rows)

\* Step 3: SentimentAnalyzer() may fail to load its model; analyze_reviews
\* indexes cleaned_text.
SentimentAnalysis ==
  /\ pc = "sentiment"
  /\ IF Available("cleaned")
     THEN /\ started' = Append(started, ClassifySentiment)
          /\ \/ Raise(pipeline_data, ClassifySentiment, "theme")
             \/ IF "cleaned_text" \in pipeline_data["cleaned"].cols
                THEN \E fault \in SaveFaults :
                       LET out == analyze_reviews(pipeline_data["cleaned"])
                       IN Deliver(InPlace(pipeline_data, out), out, ClassifySentiment,
                                  "analyzed", AnalyzedFile, fault, "theme")
                ELSE Raise(pipeline_data, ClassifySentiment, "theme")
     ELSE Skip("theme")
  /\ UNCHANGED <<report, db, storeVars>>

\* ThematicAnalyzer.analyze_themes: two columns added to the frame given.
analyze_themes(df) == DF(df.cols \cup {"keywords", "theme"}, df.rows)

\* Step 4: ThematicAnalyzer() may fail to load its language model.
ThematicAnalysis ==
  /\ pc = "theme"
  /\ IF Available("analyzed")
     THEN /\ started' = Append(started, AssignTheme)
          /\ \/ Raise(pipeline_data, AssignTheme, "persist")
             \/ IF {"cleaned_text", "bank"} \subseteq pipeline_data["analyzed"].cols
                THEN \E fault \in SaveFaults :
                       LET out == analyze_themes(pipeline_data["analyzed"])
                       IN Deliver(InPlace(pipeline_data, out), out, AssignTheme,
                                  "final", FinalFile, fault, "persist")
                ELSE Raise(pipeline_data, AssignTheme, "persist")
     ELSE Skip("persist")
  /\ UNCHANGED <<report, db, storeVars>>

\* Step 5: a new DatabaseHandler, create_tables, insert_data, run_queries;
\* whatever any of them raises is caught by the step.
DatabaseStorage ==
  /\ pc = "persist"
  /\ IF Available("final")
     THEN /\ started' = Append(started, Persist)
          /\ \E cf \in CreateFaults \cup {"connect"}, nf \in InsertFaults, qf \in BOOLEAN :
               \E c \in {create_tables(db, FALSE, cf)} :
               \E i \in {insert_data(c.db, pipeline_data["final"], nf)} :
               \E raised \in {cf = "connect" \/ c.raised \/ i.raised
                                \/ run_queries_raises(i.db, qf)} :
                  /\ db' = IF cf = "connect" THEN db
                           ELSE IF c.raised THEN c.db ELSE i.db
                  /\ call' = IF cf = "connect" \/ c.raised THEN NoCall
                             ELSE Observed(pipeline_data["final"], i)
                  /\ IF raised
                     THEN /\ failed_steps' = Append(failed_steps, Failed(Persist, "exception"))
                          /\ UNCHANGED success_steps
                     ELSE /\ success_steps' = Append(success_steps, Succeeded(Persist, "run"))
                          /\ UNCHANGED failed_steps
          /\ pc' = "visualize"
          /\ UNCHANGED <<pipeline_data, files, backups, clock>>
     ELSE Skip("visualize") /\ UNCHANGED <<db, call>>
  /\ UNCHANGED <<report, defined, ds, log, faulted>>

\* Step 6: ReviewVisualizer(...).generate_all_visualizations().
Visualization ==
  /\ pc = "visualize"
  /\ IF Available("final")
     THEN /\ started' = Append(started, Visualize)
          /\ \E ok \in BOOLEAN :
               IF ok
               THEN /\ success_steps' = Append(success_steps, Succeeded(Visualize, "run"))
                    /\ UNCHANGED failed_steps
               ELSE /\ failed_steps' = Append(failed_steps, Failed(Visualize, "exception"))
                    /\ UNCHANGED success_steps
          /\ pc' = "report"
          /\ UNCHANGED <<pipeline_data, files, backups, clock>>
     ELSE Skip("report")
  /\ UNCHANGED <<report, db, storeVars>>

FinalStatus_OffByOne(failed) == IF Len(failed) > 1 THEN "PARTIAL" ELSE "SUCCESS"
\* The FINAL STATUS block of the execution report.
FinalStatus(failed) == IF failed # <<>> THEN "PARTIAL" ELSE "SUCCESS"

\* The pipeline completion report.
ExecutionReport ==
  /\ pc = "report"
  /\ report' = FinalStatus(failed_steps)
  /\ pc' = "done"
  /\ UNCHANGED <<pipeline_data, success_steps, failed_steps, started, files,
                 backups, clock, db, storeVars>>

\* KeyboardInterrupt: no step catches it, main's outer handler does.
Interrupt ==
  /\ pc \in {"init", "collect", "clean", "sentiment", "theme", "persist",
             "visualize", "report"}
  /\ pc' = "interrupted"
  /\ UNCHANGED <<pipeline_data, success_steps, failed_steps, started, files,
                 backups, clock, report, db, storeVars>>

\* What an earlier run of the pipeline left behind.
PrevRaw == DF(ScrapedColumns, <<Row("r1", "A", GooglePlay, "t", 50, "ok")>>)
PrevCleaned == preprocess_reviews(PrevRaw)
PrevAnalyzed == analyze_reviews(PrevCleaned)
PrevFinal == analyze_themes(PrevAnalyzed)
PrevStore == insert_data(create_tables(EmptyStore, FALSE, "none").db, PrevFinal, 0).db

\* data/ and the store at the start of a run: nothing yet; the raw snapshot of
\* a run that scraped nothing; the raw snapshot of a run that failed after
\* step 1; everything a complete run leaves.
DiskImages ==
  { [files |-> <<>>, db |-> EmptyStore],
    [files |-> (RawFile :> to_csv(DF(ScrapedColumns, <<>>))), db |-> EmptyStore],
    [files |-> (RawFile :> to_csv(PrevRaw)), db |-> EmptyStore],
    [files |-> (RawFile :> to_csv(PrevRaw)) @@ (CleanedFile :> to_csv(PrevCleaned))
                 @@ (AnalyzedFile :> to_csv(PrevAnalyzed))
                 @@ (FinalFile :> to_csv(PrevFinal)),
     db |-> PrevStore] }

Init ==
  /\ pc = "init"
  /\ pipeline_data = <<>>
  /\ success_steps = <<>>
  /\ failed_steps = <<>>
  /\ started = <<>>
  /\ \E d \in DiskImages : files = d.files /\ db = d.db
  /\ backups = {}
  /\ clock = 0
  /\ report = "NONE"
  /\ defined = FALSE
  /\ ds = DF(ScrapedColumns, <<>>)
  /\ log = <<>>
  /\ faulted = FALSE
  /\ call = NoCall

Next ==
  \/ Initialize
  \/ DataCollection
  \/ DataPreprocessing
  \/ SentimentAnalysis
  \/ ThematicAnalysis
  \/ DatabaseStorage
  \/ Visualization
  \/ ExecutionReport
  \/ Interrupt

Spec == Init /\ [][Next]_vars

\* main() runs to completion unless the operator interrupts it: every step
\* that is enabled is eventually taken.
FairSpec == Spec /\ WF_vars(Next)

\* ------------------------------------------------- orchestrator properties
Executed(step) == \E i \in 1..Len(started) : started[i] = step
StageFailed(step) == \E i \in 1..Len(failed_steps) : failed_steps[i].step = step
StageRan(step) ==
  \E i \in 1..Len(success_steps) : success_steps[i] = Succeeded(step, "run")
FromFile == \E i \in 1..Len(success_steps) : success_steps[i] = Succeeded(Collect, "from file")
StageIndex(step) == CHOOSE i \in 1..Len(Stages) : Stages[i] = step
Reported == report # "NONE"

\* C1: if Clean, ClassifySentiment, AssignTheme or Persist fails, no stage
\* after it in the order Collect .. Visualize is executed in that run; in
\* particular Visualize is not executed when Persist fails.
C1_NoStageAfterFailure ==
  \A i \in 2..5 :
    StageFailed(Stages[i]) => \A j \in (i + 1)..6 : ~Executed(Stages[j])

\* C2: once the report is printed, its status is SUCCESS exactly when the
\* list of failed steps is empty and PARTIAL otherwise.
C2_StatusIffNoFailures ==
  Reported =>
    /\ report \in {"SUCCESS", "PARTIAL"}
    /\ report = "SUCCESS" <=> failed_steps = <<>>
    /\ report = "PARTIAL" <=> failed_steps # <<>>
C2_Witness == pc = "done" /\ report = "PARTIAL" /\ Len(failed_steps) = 1

\* C3: the report presents the run as a full success (all steps completed,
\* data stored in PostgreSQL) only if all six stages succeeded in the run.
C3_SuccessOnlyIfAllSucceeded ==
  report = "SUCCESS" => \A i \in 1..6 : StageRan(Stages[i])

\* C4: no stage failure ends the run before the report: main's outer handler
\* is reached only from initialization, and once initialization succeeded the
\* run reaches the execution report unless the operator interrupts it.
C4_ReportReached ==
  /\ [](pc = "critical" => started = <<>>)
  /\ (pc = "collect") ~> (Reported \/ pc = "interrupted")
C4_Witness == pc = "done" /\ Reported /\ StageFailed(Persist) /\ db.banksT = "absent"

\* C5 as stated: each stage is executed at most once and in order, and a
\* stage is executed only if the stage immediately before it succeeded in
\* this run with a non-null result that passed validation.
InOrder ==
  \A i, j \in 1..Len(started) : i < j => StageIndex(started[i]) < StageIndex(started[j])
KeyOf(step) ==
  CASE step = Collect -> "raw" [] step = Clean -> "cleaned"
    [] step = ClassifySentiment -> "analyzed" [] OTHER -> "final"
Delivered(step) ==
  /\ StageRan(step)
  /\ KeyOf(step) \in DOMAIN pipeline_data
  /\ validate_dataframe(pipeline_data[KeyOf(step)])
  /\ ~Empty(pipeline_data[KeyOf(step)])
C6_FallbackOnAnyCollectFailure ==
  (StageFailed(Collect) /\ RawFile \in DOMAIN files) =>
    /\ "raw" \in DOMAIN pipeline_data
    /\ pipeline_data["raw"] = read_csv(files[RawFile])
    /\ pc \notin {"collect", "clean", "interrupted"} => Executed(Clean)
    /\ Reported => report = "PARTIAL"

\* C7: whenever a save replaces an existing file, the backup written by that
\* save holds the content the file had before the save.
C7_BackupHoldsOldVersion ==
  [][\A n \in DOMAIN files :
       files'[n] # files[n] =>
         \E b \in backups' \ backups : b.name = n /\ b.content = files[n]]_vars

\* ------------------------------------------- the storage layer on its own
FinalColumns ==
  ScrapedColumns \cup {"cleaned_text", "sentiment_label", "sentiment_score",
                       "keywords", "theme"}

StoreDatasets == { DF(FinalColumns, rows) : rows \in SeqsUpTo(StoreRows, MaxRows) }

\* A caller of DatabaseHandler with one dataset in hand, on a database in
\* which no table exists yet.
StoreInit ==
  /\ pc = "store"
  /\ pipeline_data = <<>>
  /\ success_steps = <<>>
  /\ failed_steps = <<>>
  /\ started = <<>>
  /\ files = <<>>
  /\ backups = {}
  /\ clock = 0
  /\ report = "NONE"
  /\ db = EmptyStore
  /\ defined = FALSE
  /\ ds \in StoreDatasets
  /\ log = <<>>
  /\ faulted = FALSE
  /\ call = NoCall

\* db_handler.create_tables() on the handler in hand (fresh = FALSE) or on a
\* new DatabaseHandler(), whose declarative Base maps nothing yet.
CreateTablesOn(fresh) ==
  /\ Len(log) < MaxOps
  /\ \E fault \in CreateFaults :
       \E r \in {create_tables(db, defined /\ ~fresh, fault)} :
         /\ fault # "none" => ~faulted
         /\ db' = r.db
         /\ log' = Append(log, [op |-> "create", raised |-> r.raised])
         /\ faulted' = (faulted \/ fault # "none")
  /\ defined' = TRUE
  /\ call' = NoCall
  /\ UNCHANGED <<mainVars, ds>>

CreateTables ==
  /\ pc = "store"
  /\ CreateTablesOn(FALSE)

CreateTablesNewHandler ==
  /\ pc = "store"
  /\ CreateTablesOn(TRUE)

\* db_handler.insert_data(df)
InsertData ==
  /\ pc = "store"
  /\ Len(log) < MaxOps
  /\ \E fault \in InsertFaults :
       \E r \in {insert_data(db, ds, fault)} :
         /\ fault # 0 => ~faulted
         /\ db' = r.db
         /\ log' = Append(log, [op |-> "insert", raised |-> r.raised])
         /\ faulted' = (faulted \/ fault # 0)
         /\ call' = Observed(ds, r)
  /\ UNCHANGED <<mainVars, ds, defined>>

StoreNext == CreateTables \/ CreateTablesNewHandler \/ InsertData

StoreSpec == StoreInit /\ [][StoreNext]_vars

\* ------------------------------------------ the sentiment analyzer on its own
\* A cleaned frame of up to MaxRows reviews.
CleanedFrames ==
  { preprocess_reviews(DF(ScrapedColumns,
      [i \in 1..n |-> Row(IdAt(i), "A", GooglePlay, "t", 50, "ok")])) : n \in 0..MaxRows }

SentimentInit ==
  /\ pc = "sentiment"
  /\ pipeline_data \in { ("cleaned" :> f) : f \in CleanedFrames }
  /\ success_steps = <<>>
  /\ failed_steps = <<>>
  /\ started = <<>>
  /\ files = <<>>
  /\ backups = {}
  /\ clock = 0
  /\ report = "NONE"
  /\ db = EmptyStore
  /\ defined = FALSE
  /\ ds = DF(ScrapedColumns, <<>>)
  /\ log = <<>>
  /\ faulted = FALSE
  /\ call = NoCall

\* sentiment_analyzer.analyze_sentiment_distilbert(text)
ClassifyOne ==
  /\ pc = "sentiment"
  /\ call = NoCall
  /\ \E outcome \in Outcomes :
       call' = [fn |-> "analyze_sentiment_distilbert", outcome |-> outcome,
                result |-> analyze_sentiment_distilbert(outcome)]
  /\ UNCHANGED <<mainVars, db, defined, ds, log, faulted>>

\* sentiment_analyzer.analyze_reviews(pipeline_data['cleaned'])
AnalyzeReviews ==
  /\ pc = "sentiment"
  /\ call = NoCall
  /\ \E outcomes \in [1..Len(pipeline_data["cleaned"].rows) -> Outcomes] :
       \E r \in {classify_all(outcomes)} :
         /\ call' = [fn |-> "analyze_reviews", outcomes |-> outcomes,
                     sentiment_label |-> r.sentiments, sentiment_score |-> r.scores]
         /\ pipeline_data' = SetKey(InPlace(pipeline_data,
                                            analyze_reviews(pipeline_data["cleaned"])),
                                    "analyzed", analyze_reviews(pipeline_data["cleaned"]))
  /\ pc' = "theme"
  /\ UNCHANGED <<success_steps, failed_steps, started, files, backups, clock,
                 report, db, defined, ds, log, faulted>>

SentimentNext == ClassifyOne \/ AnalyzeReviews

SentimentSpec == SentimentInit /\ [][SentimentNext]_vars

\* ------------------------------------------------- the normalizer on its own
CleanInit ==
  /\ pc = "clean_text"
  /\ pipeline_data = <<>>
  /\ success_steps = <<>>
  /\ failed_steps = <<>>
  /\ started = <<>>
  /\ files = <<>>
  /\ backups = {}
  /\ clock = 0
  /\ report = "NONE"
  /\ db = EmptyStore
  /\ defined = FALSE
  /\ ds = DF(ScrapedColumns, <<>>)
  /\ log = <<>>
  /\ faulted = FALSE
  /\ call = NoCall

\* clean_text(text), as in df['review_text'].apply(clean_text)
CleanText ==
  /\ pc = "clean_text"
  /\ call = NoCall
  /\ \E text \in { Str(t) : t \in Texts } \cup {NaN} :
       call' = [fn |-> "clean_text", text |-> text, result |-> clean_text(text)]
  /\ UNCHANGED <<mainVars, db, defined, ds, log, faulted>>

\* clean_text applied to its own result
CleanAgain ==
  /\ pc = "clean_text"
  /\ call.fn = "clean_text"
  /\ call' = [fn |-> "clean_text again", text |-> call.result,
              result |-> clean_text(call.result)]
  /\ UNCHANGED <<mainVars, db, defined, ds, log, faulted>>

CleanNext == CleanText \/ CleanAgain

CleanSpec == CleanInit /\ [][CleanNext]_vars

\* -------------------------------------------- the theme assigner on its own
ThemeNames == {"A", "B", "C"}
\* The keyword lists of a theme: none, one or two keywords, a keyword in
\* upper case, a keyword listed twice, a keyword of two characters.
KeywordLists ==
  { <<>>, << <<"x">> >>, << <<"y">> >>, << <<"X">> >>,
    << <<"x">>, <<"y">> >>, << <<"x">>, <<"x">> >>, << <<"x", "y">> >> }
\* A configuration: up to MaxThemes themes of different names, in the order
\* of their declaration; or the configuration of the source.
Configurations ==
  { c \in UNION { [1..n -> [name : ThemeNames, keywords : KeywordLists]] :
                    n \in 1..MaxThemes } :
      \A i, j \in DOMAIN c : c[i].name = c[j].name => i = j }
  \cup {themes}
ThemeTexts ==
  { <<>>, <<"x">>, <<"X">>, <<"y">>, <<"z">>, <<"x", "y">>, <<"y", "x">>,
    <<"y", "z", "X">>,
    <<"f", "a", "s", "t", " ", "l", "o", "g", "i", "n">>,
    <<"S", "a", "f", "e", " ", "p", "i", "n">> }

ThemeInit ==
  /\ pc = "assign_theme"
  /\ pipeline_data = <<>>
  /\ success_steps = <<>>
  /\ failed_steps = <<>>
  /\ started = <<>>
  /\ files = <<>>
  /\ backups = {}
  /\ clock = 0
  /\ report = "NONE"
  /\ db = EmptyStore
  /\ defined = FALSE
  /\ ds = DF(ScrapedColumns, <<>>)
  /\ log = <<>>
  /\ faulted = FALSE
  /\ call = NoCall

\* assign_theme(text) on an analyzer whose self.themes is config
ApplyAssignTheme ==
  /\ pc = "assign_theme"
  /\ call = NoCall
  /\ \E config \in Configurations, text \in ThemeTexts :
       call' = [fn |-> "assign_theme", themes |-> config, text |-> text,
                result |-> assign_theme(config, text)]
  /\ UNCHANGED <<mainVars, db, defined, ds, log, faulted>>

ThemeNext == ApplyAssignTheme

ThemeSpec == ThemeInit /\ [][ThemeNext]_vars

\* ---------------------------------------------- the cleaning stage on its own
\* The records of a raw dataset: either identifier, a text or none, and a
\* rating that is missing, whole (0, 5, 6), or fractional (0.5, 4.5); one
\* record carries a date that cannot be parsed.
RawRows ==
  { Row(id, BankOf(id), GooglePlay, t, rt, "ok") :
      id \in IDs, t \in {"t", "u", NULL}, rt \in {NoRating, 0, 5, 45, 50, 60} }
  \cup { Row("r2", "B", GooglePlay, "t", 50, "bad") }
RawFrames == { DF(ScrapedColumns, rows) : rows \in SeqsUpTo(RawRows, MaxRows) }

PreprocessInit ==
  /\ pc = "preprocess"
  /\ pipeline_data = <<>>
  /\ success_steps = <<>>
  /\ failed_steps = <<>>
  /\ started = <<>>
  /\ files = <<>>
  /\ backups = {}
  /\ clock = 0
  /\ report = "NONE"
  /\ db = EmptyStore
  /\ defined = FALSE
  /\ ds = DF(ScrapedColumns, <<>>)
  /\ log = <<>>
  /\ faulted = FALSE
  /\ call = NoCall

\* preprocess_reviews(df)
Preprocess ==
  /\ pc = "preprocess"
  /\ call = NoCall
  /\ \E df \in RawFrames :
       call' = [fn |-> "preprocess_reviews", df |-> df,
                raised |-> preprocess_raises(df),
                result |-> IF preprocess_raises(df) THEN NoneDF
                           ELSE preprocess_reviews(df)]
  /\ UNCHANGED <<mainVars, db, defined, ds, log, faulted>>

PreprocessNext == Preprocess

PreprocessSpec == PreprocessInit /\ [][PreprocessNext]_vars

\* ------------------------------------------------- a run on three raw records
\* The characters of the review texts of the three records.
Chars ==
  ("Great app, fast transfers!" :>
     <<"G", "r", "e", "a", "t", " ", "a", "p", "p", ",", " ", "f", "a",
     "s", "t", " ", "t", "r", "a", "n", "s", "f", "e", "r", "s", "!">>)
  @@ ("" :> <<>>)
  @@ ("Crashes every time I login" :>
        <<"C", "r", "a", "s", "h", "e", "s", " ", "e", "v", "e", "r", "y",
        " ", "t", "i", "m", "e", " ", "I", " ", "l", "o", "g", "i", "n">>)

\* Three raw records: a review of bank A, a record of bank A without text
\* and rating, and a review of bank B.
ScenarioRaw ==
  DF(ScrapedColumns,
     << Row("s1", "A", GooglePlay, "Great app, fast transfers!", 50, "ok"),
        Row("s2", "A", GooglePlay, "", NoRating, "ok"),
        Row("s3", "B", GooglePlay, "Crashes every time I login", 10, "ok") >>)

\* df['cleaned_text'] = df['review_text'].apply(clean_text)
with_cleaned_text(rows) ==
  [i \in 1..Len(rows) |->
     rows[i] @@ [cleaned_text |-> clean_text(Str(Chars[rows[i].review_text])).chars]]

\* df['sentiment_label'] = sentiments; df['sentiment_score'] = scores
with_sentiment(rows, outcomes) ==
  Strict(classify_all(outcomes), LAMBDA c :
    [i \in 1..Len(rows) |->
       rows[i] @@ [sentiment_label |-> c.sentiments[i],
                   sentiment_score |-> c.scores[i]]])

\* df['theme'] = df['cleaned_text'].apply(self.assign_theme)
with_theme(rows) ==
  [i \in 1..Len(rows) |->
     rows[i] @@ [theme |-> assign_theme(themes, rows[i].cleaned_text)]]

ScenarioInit ==
  /\ pc = "clean"
  /\ pipeline_data = ("raw" :> ScenarioRaw)
  /\ success_steps = <<>>
  /\ failed_steps = <<>>
  /\ started = <<>>
  /\ files = <<>>
  /\ backups = {}
  /\ clock = 0
  /\ report = "NONE"
  /\ db = EmptyStore
  /\ defined = FALSE
  /\ ds = DF(ScrapedColumns, <<>>)
  /\ log = <<>>
  /\ faulted = FALSE
  /\ call = NoCall

\* Step 2 on the three records.
ScenarioClean ==
  /\ pc = "clean"
  /\ ~preprocess_raises(pipeline_data["raw"])
  /\ \E out \in {preprocess_reviews(pipeline_data["raw"])} :
       pipeline_data' = SetKey(pipeline_data, "cleaned",
                               DF(out.cols, with_cleaned_text(out.rows)))
  /\ pc' = "sentiment"
  /\ UNCHANGED <<success_steps, failed_steps, started, files, backups, clock,
                 report, db, storeVars>>

\* Step 3: the pipeline answers each text in one of its ways.
ScenarioClassify ==
  /\ pc = "sentiment"
  /\ \E df \in {pipeline_data["cleaned"]} :
       \E outcomes \in [1..Len(df.rows) -> Outcomes] :
         \E out \in {DF(df.cols \cup {"sentiment_label", "sentiment_score"},
                        with_sentiment(df.rows, outcomes))} :
           pipeline_data' = SetKey(InPlace(pipeline_data, out), "analyzed", out)
  /\ pc' = "theme"
  /\ UNCHANGED <<success_steps, failed_steps, started, files, backups, clock,
                 report, db, storeVars>>

\* Step 4, with the theme groups of the source.
ScenarioThemes ==
  /\ pc = "theme"
  /\ \E df \in {pipeline_data["analyzed"]} :
       \E out \in {DF(df.cols \cup {"keywords", "theme"}, with_theme(df.rows))} :
         pipeline_data' = SetKey(InPlace(pipeline_data, out), "final", out)
  /\ pc' = "persist"
  /\ UNCHANGED <<success_steps, failed_steps, started, files, backups, clock,
                 report, db, storeVars>>

\* Step 5: create_tables and insert_data on a new handler; the store may
\* fail during the load.
ScenarioPersist ==
  /\ pc = "persist"
  /\ \E fault \in InsertFaults :
       \E c \in {create_tables(db, FALSE, "none")} :
         \E r \in {insert_data(c.db, pipeline_data["final"], fault)} :
           /\ db' = r.db
           /\ call' = [fn |-> "insert_data", batch |-> r.batch, raised |-> r.raised,
                        inserted |-> r.inserted]
  /\ pc' = "done"
  /\ UNCHANGED <<pipeline_data, success_steps, failed_steps, started, files,
                 backups, clock, report, defined, ds, log, faulted>>

ScenarioNext == ScenarioClean \/ ScenarioClassify \/ ScenarioThemes \/ ScenarioPersist

ScenarioSpec == ScenarioInit /\ [][ScenarioNext]_vars

\* --------------------------------------------------- the verifier on its own
\* The records told apart by the verifier: their bank and their label.
VerifyKinds == [bank : Banks, label : {"POSITIVE", "NEGATIVE"}]
VerifyFrame(kinds) ==
  DF(FinalColumns,
     [i \in 1..Len(kinds) |->
        [review_id |-> IdAt(i), bank |-> kinds[i].bank, source |-> GooglePlay,
         review_text |-> "t", rating |-> 5, date |-> "ok",
         sentiment_label |-> kinds[i].label]])
VerifyFrames == { VerifyFrame(k) : k \in SeqsUpTo(VerifyKinds, MaxRows) }

\* A frame to load into a database without tables, and a frame, the same or
\* another, or None, to verify the store against.
VerifyInit ==
  /\ pc = "load"
  /\ pipeline_data \in { ("final" :> f) : f \in VerifyFrames }
  /\ success_steps = <<>>
  /\ failed_steps = <<>>
  /\ started = <<>>
  /\ files = <<>>
  /\ backups = {}
  /\ clock = 0
  /\ report = "NONE"
  /\ db = EmptyStore
  /\ defined = FALSE
  /\ ds \in VerifyFrames \cup {NoneDF}
  /\ log = <<>>
  /\ faulted = FALSE
  /\ call = NoCall

\* db_handler.create_tables(); db_handler.insert_data(df)
LoadStore ==
  /\ pc = "load"
  /\ \E fault \in InsertFaults :
       \E c \in {create_tables(db, defined, "none")} :
       \E r \in {insert_data(c.db, pipeline_data["final"], fault)} :
         /\ db' = r.db
         /\ log' = <<[op |-> "create", raised |-> c.raised],
                     [op |-> "insert", raised |-> r.raised]>>
         /\ faulted' = (fault # 0)
         /\ call' = Observed(pipeline_data["final"], r)
  /\ defined' = TRUE
  /\ pc' = "verify"
  /\ UNCHANGED <<pipeline_data, success_steps, failed_steps, started, files,
                 backups, clock, report, ds>>

\* verifier.compare_counts(verifier.get_database_counts(),
\*                         verifier.get_source_counts(source_df))
CompareCounts ==
  /\ pc \in {"load", "verify"}
  /\ \E d \in {get_database_counts(db, FALSE)}, src \in {get_source_counts(ds)} :
       call' = [fn |-> "compare_counts", db_counts |-> d, source_counts |-> src,
                result |-> compare_counts(d, src)]
  /\ pc' = "verified"
  /\ UNCHANGED <<pipeline_data, success_steps, failed_steps, started, files,
                 backups, clock, report, db, defined, ds, log, faulted>>

\* verifier.verify_database_contents(source_df)
VerifyContents ==
  /\ pc \in {"load", "verify"}
  /\ \E fault \in VerifyFaults :
       call' = [fn |-> "verify_database_contents", fault |-> fault,
                result |-> verify_database_contents(db, ds, fault)]
  /\ pc' = "verified"
  /\ UNCHANGED <<pipeline_data, success_steps, failed_steps, started, files,
                 backups, clock, report, db, defined, ds, log, faulted>>

VerifyNext == LoadStore \/ CompareCounts \/ VerifyContents

VerifySpec == VerifyInit /\ [][VerifyNext]_vars

\* ------------------------------------------- properties of the storage layer
LastCall == log[Len(log)]
Loads == Cardinality({ i \in 1..Len(log) : log[i].op = "insert" })
BanksOf(rows) == { rows[i].bank : i \in 1..Len(rows) }
UniqueIds(rows) == ~HasDuplicates(ColumnOf(rows, "review_id"))

\* A record the load has no reason to exclude, and a dataset of such records
\* with unique identifiers in which every bank comes from one source.
Loadable(r) ==
  r.bank # NULL /\ r.review_id # NULL /\ r.review_text # NULL /\ r.date # "bad"
WellFormed(rows) ==
  /\ \A i \in 1..Len(rows) : Loadable(rows[i])
  /\ UniqueIds(rows)
  /\ \A i, j \in 1..Len(rows) :
       rows[i].bank = rows[j].bank => rows[i].source = rows[j].source

\* C8: once a dataset of N well-formed reviews with unique review_ids across
\* B banks has been loaded twice, with or without create_tables around the
\* loads and without any failure of the store itself, the store holds
\* exactly N reviews and B banks and no review_id twice.
C8_LoadTwiceKeepsOneCopy ==
  (/\ ~faulted
   /\ Len(log) >= 2
   /\ LastCall.op = "insert"
   /\ Loads = 2
   /\ WellFormed(ds.rows)) =>
    /\ Len(db.reviews) = Len(ds.rows)
    /\ Len(db.banks) = Cardinality(BanksOf(ds.rows))
    /\ ~HasDuplicates(ColumnOf(db.reviews, "review_id"))

\* C9: in every state of the store, whatever calls were made and wherever
\* they failed, every persisted review has a non-null bank_id that is the
\* bank_id of a row of the banks table.
C9_ReviewsReferenceBanks ==
  \A i \in 1..Len(db.reviews) :
    /\ db.reviews[i].bank_id # 0
    /\ db.reviews[i].bank_id \in Values(ColumnOf(db.banks, "bank_id"))
\* A load of two reviews that failed at its second batch, the first batch
\* persisted.
C9_Witness ==
  /\ faulted
  /\ Len(log) >= 1
  /\ LastCall = [op |-> "insert", raised |-> TRUE]
  /\ Len(ds.rows) = 2
  /\ Len(db.reviews) = 1

\* C10: after create_tables and one load of a dataset in which exactly one
\* review has no bank, the others being well-formed, the load has not
\* failed, has counted one unmapped review, and the store holds exactly the
\* other reviews.
C10_OnlyUnmatchedExcluded ==
  LET others == FilterSeq(ds.rows, LAMBDA r : r.bank # NULL)
  IN (/\ ~faulted
      /\ Len(log) = 2
      /\ log[1] = [op |-> "create", raised |-> FALSE]
      /\ log[2].op = "insert"
      /\ Len(others) = Len(ds.rows) - 1
      /\ Len(others) >= 1
      /\ WellFormed(others)
      /\ UniqueIds(ds.rows)) =>
       /\ ~log[2].raised
       /\ unmapped(ds.rows) = 1
       /\ ColumnOf(db.reviews, "review_id") = ColumnOf(others, "review_id")

\* C11: when the insert of batch k of a load raises, the store holds the
\* rows it held when the batch loop began followed by batches 1..k-1 of the
\* load and nothing of batch k or later, insert_data has raised, and in the
\* orchestrator the step is recorded as failed and the report, once printed,
\* is PARTIAL with Database Storage among the failed steps.
LoadedRows == IF pc = "persist" THEN pipeline_data["final"].rows ELSE ds.rows
C11_FailedBatchKeepsEarlierBatches ==
  /\ [][(call'.fn = "insert_data" /\ call'.batch > 0 /\ pc \in {"persist", "store"}) =>
          LET rs == reviews_df(LoadedRows)
              base == IF pc = "persist" THEN <<>> ELSE db.reviews
          IN /\ db'.reviews = base \o SubSeq(rs, 1, (call'.batch - 1) * ChunkSize)
             /\ pc = "persist" =>
                  failed_steps' = Append(failed_steps, Failed(Persist, "exception"))
             /\ pc = "store" => log'[Len(log')] = [op |-> "insert", raised |-> TRUE]]_vars
  /\ []((Reported /\ call.fn = "insert_data" /\ call.batch > 0) =>
          (report = "PARTIAL" /\ StageFailed(Persist)))
\* A reported run whose load failed at its second batch, the first persisted.
C11_Witness ==
  /\ Reported
  /\ call.fn = "insert_data"
  /\ call.batch = 2
  /\ Len(db.reviews) = ChunkSize
  /\ StageFailed(Persist)

\* C12: after create_tables and one load of a dataset whose records are
\* well-formed except that some have a date that does not parse, the load
\* has not failed, the store holds exactly the records whose date parses,
\* and the load has reported the number of records excluded for their date.
C12_BadDatesExcludedAndCounted ==
  LET dated == [i \in 1..Len(ds.rows) |-> [ds.rows[i] EXCEPT !.date = "ok"]]
      good == FilterSeq(ds.rows, HasDate)
  IN (/\ ~faulted
      /\ Len(log) = 2
      /\ log[1] = [op |-> "create", raised |-> FALSE]
      /\ log[2].op = "insert"
      /\ WellFormed(dated)
      /\ Len(good) < Len(ds.rows)) =>
       /\ ~log[2].raised
       /\ ColumnOf(db.reviews, "review_id") = ColumnOf(good, "review_id")
       /\ [what |-> "invalid dates", n |-> Len(ds.rows) - Len(good)] \in call.warnings

\* ----------------------------------------------- properties of the verifier
Compared == call.fn = "compare_counts"
Verified == call.fn = "verify_database_contents" /\ call.fault # "connect"
Comparison == IF Compared THEN call.result ELSE call.result.comparison
DbCounts == IF Compared THEN call.db_counts ELSE call.result.record_counts.database
SourceCounts ==
  IF Compared THEN call.source_counts ELSE call.result.record_counts.source

\* C13: whenever a comparison or a verification claims integrity
\* (integrity_check true or data_integrity PASS), its list of mismatches is
\* empty.
C13_IntegrityOnlyWithoutMismatches ==
  (Compared \/ Verified) =>
    ((Comparison.integrity_check \/ Comparison.summary.data_integrity = "PASS")
       => Comparison.mismatches = {})

\* C14: for every dimension the verifier covers (total rows, unique banks,
\* the count of each bank, the count of each sentiment label) on which the
\* stored and the source value differ, the list of mismatches holds an entry
\* that names the dimension and gives both values and database minus source.
Differs(key) == Get(DbCounts, key, 0) # Get(SourceCounts, key, 0)
Itemized(key) ==
  [dimension |-> key, database |-> Get(DbCounts, key, 0),
   source |-> Get(SourceCounts, key, 0),
   difference |-> Get(DbCounts, key, 0) - Get(SourceCounts, key, 0)]
ItemizedIn(key, field, k) ==
  LET d == Get(Get(DbCounts, key, <<>>), k, 0)
      src == Get(Get(SourceCounts, key, <<>>), k, 0)
  IN d # src =>
       \E m \in Comparison.mismatches :
         /\ m.dimension = key
         /\ field \in DOMAIN m
         /\ m[field] = k
         /\ m.database = d /\ m.source = src /\ m.difference = d - src
C14_EveryMismatchItemized ==
  (Compared \/ Verified) =>
    /\ Differs("total_reviews") => Itemized("total_reviews") \in Comparison.mismatches
    /\ Differs("unique_banks") => Itemized("unique_banks") \in Comparison.mismatches
    /\ \A b \in DOMAIN Get(DbCounts, "bank_counts", <<>>)
                \cup DOMAIN Get(SourceCounts, "bank_counts", <<>>) :
         ItemizedIn("bank_counts", "bank", b)
    /\ \A l \in DOMAIN Get(DbCounts, "sentiment_counts", <<>>)
                \cup DOMAIN Get(SourceCounts, "sentiment_counts", <<>>) :
         ItemizedIn("sentiment_counts", "label", l)

\* C15: after create_tables and a load of a dataset of N records across B
\* banks in which no record is excluded and nothing fails, the verification
\* against the same dataset finds no mismatch, passes, and gives N as the
\* stored total of reviews and B as the stored number of banks.
CleanLoad ==
  /\ ~faulted
  /\ log = <<[op |-> "create", raised |-> FALSE], [op |-> "insert", raised |-> FALSE]>>
  /\ ds = pipeline_data["final"]
  /\ WellFormed(ds.rows)
  /\ call.fn = "verify_database_contents"
  /\ call.fault = "none"
C15_VerifierAgreesAfterCleanLoad ==
  CleanLoad =>
    /\ call.result.comparison.mismatches = {}
    /\ call.result.verification_summary.total_mismatches = 0
    /\ call.result.integrity_check
    /\ call.result.record_counts.database.total_reviews = Len(ds.rows)
    /\ call.result.record_counts.database.unique_banks = Cardinality(BanksOf(ds.rows))
C15_Witness ==
  CleanLoad /\ Len(ds.rows) = 2 /\ Cardinality(BanksOf(ds.rows)) = 2

\* --------------------------------------------- properties of the normalizer
\* C16: clean_text applied to a result of clean_text returns it unchanged.
C16_CleanTextIdempotent ==
  call.fn = "clean_text again" => call.result = call.text

\* C17: no result of clean_text has two whitespace characters in a row.
C17_NoWhitespaceRun ==
  call.fn = "clean_text" =>
    \A i \in 1..(Len(call.result.chars) - 1) :
      ~(IsSpace(call.result.chars[i]) /\ IsSpace(call.result.chars[i + 1]))

\* C18: every character of a result of clean_text is a letter, a digit, a
\* whitespace character or one of . , ! ?
C18_OnlyAllowedCharacters ==
  call.fn = "clean_text" =>
    \A i \in 1..Len(call.result.chars) :
      \/ call.result.chars[i] \in {"a", "A", "1"}
      \/ IsSpace(call.result.chars[i])
      \/ call.result.chars[i] \in {".", ",", "!", "?"}

\* ------------------------------------- properties of the sentiment analyzer
\* The pipeline failed for a text: it raised, or its output is malformed.
CapabilityFailed(outcome) == outcome.raises \/ outcome \in MalformedOutcomes

\* C19: the classifier always returns; for a text on which the pipeline
\* failed it returns exactly (NEUTRAL, 0.5); analyze_reviews gives one label
\* and one score per record, the fallback for the records on which the
\* pipeline failed and the pipeline's answer for the others.
C19_FallbackOnCapabilityFailure ==
  /\ call.fn = "analyze_sentiment_distilbert" =>
       (CapabilityFailed(call.outcome) => call.result = Fallback)
  /\ call.fn = "analyze_reviews" =>
       /\ Len(call.sentiment_label) = Len(pipeline_data["cleaned"].rows)
       /\ Len(call.sentiment_score) = Len(pipeline_data["cleaned"].rows)
       /\ \A i \in 1..Len(call.outcomes) :
            IF CapabilityFailed(call.outcomes[i])
            THEN /\ call.sentiment_label[i] = Fallback.label
                 /\ call.sentiment_score[i] = Fallback.score
            ELSE /\ call.sentiment_label[i] = call.outcomes[i].out[1].label
                 /\ call.sentiment_score[i] = call.outcomes[i].out[1].score

\* C20: whatever the pipeline does, the label the classifier returns is
\* POSITIVE, NEGATIVE or NEUTRAL and the score lies between 0 and 1.
C20_LabelAndScoreInRange ==
  /\ call.fn = "analyze_sentiment_distilbert" =>
       /\ call.result.label \in {"POSITIVE", "NEGATIVE", "NEUTRAL"}
       /\ call.result.score \in 0..100
  /\ call.fn = "analyze_reviews" =>
       \A i \in 1..Len(call.outcomes) :
         /\ call.sentiment_label[i] \in {"POSITIVE", "NEGATIVE", "NEUTRAL"}
         /\ call.sentiment_score[i] \in 0..100

\* ------------------------------------------ properties of the theme assigner
\* The number of keywords of the i-th theme found in the text.
KeywordCount(config, text, i) == score(config[i].keywords, lower(text))
\* The themes whose keyword count is the maximum, when that is not zero.
Tied(config, text) ==
  { i \in DOMAIN config :
      /\ KeywordCount(config, text, i) > 0
      /\ \A j \in DOMAIN config :
           KeywordCount(config, text, j) <= KeywordCount(config, text, i) }

\* C21: when several themes tie for the maximum nonzero keyword count,
\* assign_theme returns the one declared earliest in the configuration.
C21_TieGoesToEarliestTheme ==
  call.fn = "assign_theme" =>
    \A t \in {Tied(call.themes, call.text)} :
      Cardinality(t) >= 2 =>
        call.result = call.themes[CHOOSE i \in t : \A j \in t : i <= j].name

\* Themes A then B, each with the single keyword x, and the text x: A.
C21_Witness ==
  /\ call.fn = "assign_theme"
  /\ call.themes = << [name |-> "A", keywords |-> << <<"x">> >>],
                      [name |-> "B", keywords |-> << <<"x">> >>] >>
  /\ call.text = <<"x">>
  /\ call.result = "A"

\* The text contains, in whatever case, a keyword of some theme.
ContainsKeyword(config, text) ==
  \E i \in DOMAIN config : \E k \in DOMAIN config[i].keywords :
     IsSubstring(lower(config[i].keywords[k]), lower(text))

\* C22: a text that contains no keyword of any configured theme is given
\* Other, and every result is Other or the name of a configured theme.
C22_OtherWhenNothingMatches ==
  call.fn = "assign_theme" =>
    /\ ~ContainsKeyword(call.themes, call.text) => call.result = "Other"
    /\ call.result \in {"Other"} \cup { call.themes[i].name : i \in DOMAIN call.themes }

\* A text without any keyword of two themes that have keywords: Other.
C22_Witness ==
  /\ call.fn = "assign_theme"
  /\ Len(call.themes) = 2
  /\ \A i \in DOMAIN call.themes : Len(call.themes[i].keywords) > 0
  /\ call.text = <<"z">>
  /\ call.result = "Other"

\* ---------------------------------------- properties of the cleaning stage
\* preprocess_reviews returned a cleaned dataset.
Cleaned == call.fn = "preprocess_reviews" /\ ~call.raised

\* C24: every record of the cleaned dataset has a whole rating from 1 to 5.
C24_RatingBetweenOneAndFive ==
  Cleaned =>
    \A i \in 1..Len(call.result.rows) : call.result.rows[i].rating \in 1..5

\* The first record of the raw dataset that carries the identifier.
FirstOccurrence(rows, id) ==
  rows[CHOOSE k \in 1..Len(rows) :
         /\ rows[k].review_id = id
         /\ \A j \in 1..(k - 1) : rows[j].review_id # id]

\* C25: no two records of the cleaned dataset share a review_id, and the
\* record kept for an identifier is its first occurrence in the raw dataset.
C25_UniqueIdsFirstOccurrence ==
  Cleaned =>
    /\ \A i, j \in 1..Len(call.result.rows) :
         call.result.rows[i].review_id = call.result.rows[j].review_id => i = j
    /\ \A i \in 1..Len(call.result.rows) :
         \E first \in {FirstOccurrence(call.df.rows, call.result.rows[i].review_id)} :
           /\ call.result.rows[i].review_text = first.review_text
           /\ call.result.rows[i].rating = astype_int(first.rating)
           /\ call.result.rows[i].bank = first.bank

\* Two different valid records under one identifier: the first one is kept.
C25_Witness ==
  /\ Cleaned
  /\ Len(call.df.rows) = 2
  /\ call.df.rows[1].review_id = call.df.rows[2].review_id
  /\ call.df.rows[1].review_text = "t" /\ call.df.rows[2].review_text = "u"
  /\ call.df.rows[1].rating = 45 /\ call.df.rows[2].rating = 50
  /\ Len(call.result.rows) = 1
  /\ call.result.rows[1].review_text = "t"

\* C30: every identifier under which the raw dataset has a record with a
\* text and a rating appears in exactly one record of the cleaned dataset.
C30_NoValidReviewLost ==
  Cleaned =>
    \A k \in 1..Len(call.df.rows) :
      HasTextAndRating(call.df.rows[k]) =>
        Cardinality({ i \in 1..Len(call.result.rows) :
                        call.result.rows[i].review_id = call.df.rows[k].review_id }) = 1

\* --------------------------------------- properties of the three-record run
\* The load of the run went through.
Persisted == pc = "done" /\ call.fn = "insert_data" /\ ~call.raised
\* The configured group that lists the keyword.
GroupOf(keyword) ==
  themes[CHOOSE i \in DOMAIN themes :
           \E k \in DOMAIN themes[i].keywords : themes[i].keywords[k] = keyword].name
\* The stored review with the identifier.
Stored(id) == db.reviews[CHOOSE i \in 1..Len(db.reviews) : db.reviews[i].review_id = id]

\* C23, as stated: the run persists exactly 2 reviews and 2 banks, and the
\* theme of the first record is the group that contains "transfer".
C23_ScenarioThemeIsTransferGroup ==
  Persisted =>
    /\ Len(db.reviews) = 2
    /\ Len(db.banks) = 2
    /\ Stored("s1").theme = GroupOf(<<"t", "r", "a", "n", "s", "f", "e", "r">>)

\* C23, amended: the run persists exactly 2 reviews and 2 banks; the first
\* text matches one keyword of the group of "fast" and one of the group of
\* "transfer", and its theme is the group of "fast", declared earlier.
C23_ScenarioThemeIsEarliestTiedGroup ==
  Persisted =>
    /\ Len(db.reviews) = 2
    /\ Len(db.banks) = 2
    /\ { db.reviews[i].review_id : i \in 1..Len(db.reviews) } = {"s1", "s3"}
    /\ Stored("s1").theme = GroupOf(<<"f", "a", "s", "t">>)
    /\ Stored("s1").theme = "Performance"

\* The run has persisted its two reviews.
C23_Witness ==
  /\ Persisted
  /\ Len(db.reviews) = 2
  /\ Stored("s1").theme = "Performance"
  /\ Stored("s3").theme = "Performance"

\* ------------------------------------------------ properties of the data flow
\* C26: a step that executes ClassifySentiment, AssignTheme or Persist
\* leaves the dataset produced by the preceding stage as it was: the same
\* rows, the same columns.
C26_NoStageMutatesItsInput ==
  [][\A k \in 3..5 :
       started' = Append(started, Stages[k]) =>
         pipeline_data'[KeyOf(Stages[k - 1])] = pipeline_data[KeyOf(Stages[k - 1])]]_vars

\* ------------------------------------------- properties of schema provisioning
\* C27: every create_tables call, on a store that does not fail, succeeds
\* and leaves both tables and the indexes existing with no rows, however
\* often it was called before and whatever the store held; and the reviews
\* table never outlives a dropped banks table.
C27_CreateTablesIdempotent ==
  /\ (~faulted /\ Len(log) > 0 /\ LastCall.op = "create") =>
       /\ ~LastCall.raised
       /\ db.banksT = "orm" /\ db.reviewsT = "orm" /\ db.idx
       /\ Len(db.banks) = 0 /\ Len(db.reviews) = 0
  /\ db.banksT = "absent" => db.reviewsT # "orm"

\* --------------------------------------------- properties of the bank dimension
\* The dataset was loaded by one insert_data call into a store that
\* create_tables had just provisioned, and the store itself did not fail.
LoadedOnce ==
  /\ ~faulted
  /\ Len(log) = 2
  /\ log[1] = [op |-> "create", raised |-> FALSE]
  /\ log[2].op = "insert"

\* C28: for a dataset of loadable records with unique identifiers, in which
\* a bank may occur with two sources, the bank dimension has one row per
\* bank name, the bank insert does not fail, and every review is loaded.
C28_OneBankRowPerName ==
  (/\ \A i \in 1..Len(ds.rows) : Loadable(ds.rows[i])
   /\ UniqueIds(ds.rows)
   /\ LoadedOnce) =>
    /\ ~HasDuplicates(ColumnOf(bank_df(ds.rows), "bank_name"))
    /\ ~log[2].raised
    /\ Values(ColumnOf(db.banks, "bank_name")) = BanksOf(ds.rows)
    /\ Len(db.banks) = Cardinality(BanksOf(ds.rows))
    /\ Len(db.reviews) = Len(ds.rows)

\* ------------------------------------- properties of the verifier's failures
\* The counts of one side could not be computed: the connection failed, or
\* the counts of the store or of the source carry an error.
CountsMissing ==
  \/ call.fault = "connect"
  \/ "error" \in DOMAIN call.result.record_counts.database
  \/ "error" \in DOMAIN call.result.record_counts.source

\* C29: when the source dataset is None or empty, or the counts of the
\* store could not be computed, verify_database_contents reports
\* integrity_check false and FAIL or ERROR, never PASS.
C29_NoPassWithoutCounts ==
  (call.fn = "verify_database_contents" /\ CountsMissing) =>
    /\ ~call.result.integrity_check
    /\ call.result.verification_summary.data_integrity \in {"FAIL", "ERROR"}
====
